---- MODULE Spec2Model ----
(***************************************************************************)
(* Model of tracing-stackdriver's EventFormatter (src/src/event_formatter.rs).*)
(*                                                                         *)
(* One call of FormatEvent::format_event turns one tracing event, seen in  *)
(* a span registry context, into the bytes it writes to the format::Writer.*)
(* Strings that the code inspects character by character (field names and *)
(* output keys) are sequences of one-character strings; the output is the  *)
(* sequence of writes the serializer performs on the writer.               *)
(***************************************************************************)
EXTENDS Integers, Sequences, FiniteSets, TLC

VARIABLES formatter, context, event, fault, writer, result

vars == <<formatter, context, event, fault, writer, result>>

(***************************************************************************)
(* Bounds of the model.                                                    *)
(***************************************************************************)
\* the largest number of fields one event carries
MaxFields == 2
\* the number of span ids the registry hands out
MaxSpans == 2
\* the latest write on the sink that is made to fail
MaxFaultAt == 9

(***************************************************************************)
(* Characters and strings.                                                 *)
(***************************************************************************)
LowerSeq == <<"a","b","c","d","e","f","g","h","i","j","k","l","m",
              "n","o","p","q","r","s","t","u","v","w","x","y","z">>
UpperSeq == <<"A","B","C","D","E","F","G","H","I","J","K","L","M",
              "N","O","P","Q","R","S","T","U","V","W","X","Y","Z">>
DigitSeq == <<"0","1","2","3","4","5","6","7","8","9">>

\* the characters of the model in the order of their code points
\* ('-' 45, '.' 46, '/' 47, digits, upper case, '_' 95, lower case)
AsciiOrder == <<"-", ".", "/">> \o DigitSeq \o UpperSeq \o <<"_">> \o LowerSeq

Range(s) == {s[i] : i \in DOMAIN s}
Lower == Range(LowerSeq)
Upper == Range(UpperSeq)
Digit == Range(DigitSeq)

IndexIn(seq, c) == CHOOSE i \in DOMAIN seq : seq[i] = c

\* char::to_ascii_lowercase / char::to_ascii_uppercase
to_ascii_lowercase(c) == IF c \in Upper THEN LowerSeq[IndexIn(UpperSeq, c)] ELSE c
to_ascii_uppercase(c) == IF c \in Lower THEN UpperSeq[IndexIn(LowerSeq, c)] ELSE c

\* the code point order of two characters
CharCode == [c \in Range(AsciiOrder) |-> IndexIn(AsciiOrder, c)]

\* String's Ord: byte-wise lexicographic order, a proper prefix first
RECURSIVE StrLess(_, _)
StrLess(a, b) ==
    IF a = <<>> THEN b # <<>>
    ELSE IF b = <<>> THEN FALSE
    ELSE IF a[1] = b[1] THEN StrLess(Tail(a), Tail(b))
    ELSE CharCode[a[1]] < CharCode[b[1]]

\* str::starts_with
starts_with(s, p) == Len(s) >= Len(p) /\ SubSeq(s, 1, Len(p)) = p

(***************************************************************************)
(* Inflector's to_camel_case, as called on every routed key.               *)
(***************************************************************************)
is_not_alphanumeric(c) == c \notin (Lower \cup Upper \cup Digit)

\* str::trim_end_matches(is_not_alphanumeric)
RECURSIVE trim_right(_)
trim_right(s) ==
    IF s = <<>> THEN s
    ELSE IF is_not_alphanumeric(s[Len(s)]) THEN trim_right(SubSeq(s, 1, Len(s) - 1))
    ELSE s

RECURSIVE to_case_camel_like(_, _, _, _, _, _)
to_case_camel_like(s, i, new_word, last_char, found_real_char, acc) ==
    IF i > Len(s) THEN acc
    ELSE LET c == s[i] IN
        IF is_not_alphanumeric(c) /\ found_real_char
        THEN to_case_camel_like(s, i + 1, TRUE, last_char, found_real_char, acc)
        ELSE IF ~found_real_char /\ is_not_alphanumeric(c)
        THEN to_case_camel_like(s, i + 1, new_word, last_char, found_real_char, acc)
        ELSE IF c \in Digit
        THEN to_case_camel_like(s, i + 1, TRUE, last_char, TRUE, Append(acc, c))
        ELSE IF new_word \/ (last_char \in Lower /\ c \in Upper /\ last_char # " ")
        THEN to_case_camel_like(s, i + 1, FALSE, last_char, TRUE,
                                Append(acc, to_ascii_uppercase(c)))
        ELSE to_case_camel_like(s, i + 1, new_word, c, TRUE,
                                Append(acc, to_ascii_lowercase(c)))

to_camel_case(s) == to_case_camel_like(trim_right(s), 1, FALSE, " ", FALSE, <<>>)

(***************************************************************************)
(* String constants, spelled as character sequences.                       *)
(***************************************************************************)
\* reserved output keys (event_formatter.rs:151-287)
K_severity == <<"s","e","v","e","r","i","t","y">>
K_time == <<"t","i","m","e">>
K_target == <<"t","a","r","g","e","t">>
K_message == <<"m","e","s","s","a","g","e">>
K_httpRequest == <<"h","t","t","p","R","e","q","u","e","s","t">>
K_span == <<"s","p","a","n">>
K_spans == <<"s","p","a","n","s">>
K_insertId == <<"l","o","g","g","i","n","g",".","g","o","o","g","l","e","a","p","i","s",".","c","o","m","/","i","n","s","e","r","t","I","d">>
K_labels == <<"l","o","g","g","i","n","g",".","g","o","o","g","l","e","a","p","i","s",".","c","o","m","/","l","a","b","e","l","s">>
K_sourceLocation == <<"l","o","g","g","i","n","g",".","g","o","o","g","l","e","a","p","i","s",".","c","o","m","/","s","o","u","r","c","e","L","o","c","a","t","i","o","n">>
K_trace == <<"l","o","g","g","i","n","g",".","g","o","o","g","l","e","a","p","i","s",".","c","o","m","/","t","r","a","c","e">>
K_spanId == <<"l","o","g","g","i","n","g",".","g","o","o","g","l","e","a","p","i","s",".","c","o","m","/","s","p","a","n","I","d">>
K_traceSampled == <<"l","o","g","g","i","n","g",".","g","o","o","g","l","e","a","p","i","s",".","c","o","m","/","t","r","a","c","e","_","s","a","m","p","l","e","d">>

\* field names and prefixes the code matches on
P_severity == <<"s","e","v","e","r","i","t","y">>
P_message == <<"m","e","s","s","a","g","e">>
P_http_request == <<"h","t","t","p","_","r","e","q","u","e","s","t">>
P_labels == <<"l","a","b","e","l","s">>
P_insert_id == <<"i","n","s","e","r","t","_","i","d">>
P_log == <<"l","o","g",".">>
P_event == <<"e","v","e","n","t",".">>

\* severity words
W_default == <<"d","e","f","a","u","l","t">>
W_debug == <<"d","e","b","u","g">>
W_trace == <<"t","r","a","c","e">>
W_info == <<"i","n","f","o">>
W_notice == <<"n","o","t","i","c","e">>
W_warn == <<"w","a","r","n">>
W_warning == <<"w","a","r","n","i","n","g">>
W_error == <<"e","r","r","o","r">>
W_critical == <<"c","r","i","t","i","c","a","l">>
W_alert == <<"a","l","e","r","t">>
W_emergency == <<"e","m","e","r","g","e","n","c","y">>

\* trace resource name pieces and member names
S_projects == <<"p","r","o","j","e","c","t","s","/">>
S_traces == <<"/","t","r","a","c","e","s","/">>
S_file == <<"f","i","l","e">>
S_line == <<"l","i","n","e">>
S_name == <<"n","a","m","e">>

\* field names of the modelled events
F_a == <<"a">>
F_foo_bar == <<"f","o","o","_","b","a","r">>
F_fooBar == <<"f","o","o","B","a","r">>
F_time == <<"t","i","m","e">>
F_span == <<"s","p","a","n">>
F_http_request_status == <<"h","t","t","p","_","r","e","q","u","e","s","t",".","s","t","a","t","u","s">>
F_http_request_remote_ip == <<"h","t","t","p","_","r","e","q","u","e","s","t",".","r","e","m","o","t","e","_","i","p">>
F_labels_env == <<"l","a","b","e","l","s",".","e","n","v">>
F_insert_id_x == <<"i","n","s","e","r","t","_","i","d",".","x">>
F_message_x == <<"m","e","s","s","a","g","e",".","x">>
F_Severity == <<"S","e","v","e","r","i","t","y">>
F_log_line == <<"l","o","g",".","l","i","n","e">>
F_x_y == <<"x",".","y">>

\* values of the modelled events
V_v == <<"v">>
V_hello == <<"h","e","l","l","o">>
V_Notice == <<"N","o","t","i","c","e">>
V_bogus == <<"b","o","g","u","s">>
V_info == <<"i","n","f","o">>
V_app == <<"a","p","p">>
V_file == <<"s","r","c","/","m","a","i","n",".","r","s">>
V_now == <<"2","0","2","6","-","0","1","-","0","1","T","0","0",":","0","0",":","0","0","Z">>
V_proj == <<"p","r","o","j","-","1">>
V_abc == <<"a","b","c">>
V_own == <<"0","a">>
V_xyz == <<"0","b">>
V_rem == <<"0","c">>
V_server == <<"s","e","r","v","e","r">>
V_request == <<"r","e","q","u","e","s","t">>
V_db == <<"d","b">>

(***************************************************************************)
(* serde_json::Value, as far as the formatter builds it.                   *)
(***************************************************************************)
\* A value is [t, s, n, b, obj, arr]: its type, and its text, number, flag,
\* members or elements; the parts its type does not use are empty.
JValue(t, s, n, b, obj, arr) ==
    [t |-> t, s |-> s, n |-> n, b |-> b, obj |-> obj, arr |-> arr]
JString(s) == JValue("String", s, 0, FALSE, <<>>, <<>>)
JNumber(n) == JValue("Number", <<>>, n, FALSE, <<>>, <<>>)
JBool(b) == JValue("Bool", <<>>, 0, b, <<>>, <<>>)
JObject(map) == JValue("Object", <<>>, 0, FALSE, map, <<>>)
JArray(seq) == JValue("Array", <<>>, 0, FALSE, <<>>, seq)

\* the decimal rendering of a natural number
RECURSIVE NatToStr(_)
NatToStr(n) == IF n < 10 THEN <<DigitSeq[n + 1]>>
               ELSE Append(NatToStr(n \div 10), DigitSeq[(n % 10) + 1])

\* serde_json::Value::to_string of a scalar: its JSON text
value_to_string(value) ==
    CASE value.t = "Number" -> NatToStr(value.n)
      [] value.t = "Bool" -> IF value.b THEN <<"t","r","u","e">> ELSE <<"f","a","l","s","e">>
      [] OTHER -> <<"\"">> \o value.s \o <<"\"">>

\* match value { Value::String(value) => value, _ => value.to_string() }
string_or_to_string(value) == IF value.t = "String" THEN value.s ELSE value_to_string(value)

(***************************************************************************)
(* serde_json::Map<String, Value>: a map with its keys in String order.    *)
(***************************************************************************)
EmptyMap == <<>>

map_insert(map, key, value) ==
    [k \in (DOMAIN map) \cup {key} |-> IF k = key THEN value ELSE map[k]]

map_remove(map, key) == [k \in (DOMAIN map) \ {key} |-> map[k]]

\* the keys of a map in the order its iterator yields them
RECURSIVE SortedKeys(_)
SortedKeys(keys) ==
    IF keys = {} THEN <<>>
    ELSE LET first == CHOOSE k \in keys : \A o \in keys \ {k} : StrLess(k, o)
         IN <<first>> \o SortedKeys(keys \ {first})

(***************************************************************************)
(* EventFieldVisitor: one record_* method per kind of field value.         *)
(* A recorded value is [kind, finite, num, text, flag]: a number (finite   *)
(* or not), a flag, or the text of a string, an error or a Debug value.    *)
(***************************************************************************)
record_f64(map, name, value) ==
    map_insert(map, name, IF value.finite THEN JNumber(value.num) ELSE JNumber(0))

record_i64(map, name, value) == map_insert(map, name, JNumber(value.num))

record_u64(map, name, value) == map_insert(map, name, JNumber(value.num))

record_bool(map, name, value) == map_insert(map, name, JBool(value.flag))

record_str(map, name, value) == map_insert(map, name, JString(value.text))

record_error(map, name, value) == map_insert(map, name, JString(value.text))

record_debug(map, name, value) ==
    IF starts_with(name, P_log) THEN map
    ELSE IF starts_with(name, P_event) THEN map
    ELSE IF name = P_message THEN map_insert(map, P_message, JString(value.text))
    ELSE map_insert(map, name, JString(value.text))

\* the visitor method tracing calls for a value of this kind
record_field(map, name, value) ==
    CASE value.kind = "f64" -> record_f64(map, name, value)
      [] value.kind = "i64" -> record_i64(map, name, value)
      [] value.kind = "u64" -> record_u64(map, name, value)
      [] value.kind = "bool" -> record_bool(map, name, value)
      [] value.kind = "str" -> record_str(map, name, value)
      [] value.kind = "error" -> record_error(map, name, value)
      [] OTHER -> record_debug(map, name, value)

\* event.record(&mut visitor): every field of the event visits the map
RECURSIVE record_all(_, _, _)
record_all(map, fields, names) ==
    IF names = <<>> THEN map
    ELSE record_all(record_field(map, names[1], fields[names[1]]), fields, Tail(names))

EventFieldVisitor(ev) == record_all(EmptyMap, ev.fields, SortedKeys(DOMAIN ev.fields))

(***************************************************************************)
(* LogSeverity (google.rs): the level table and the override parser.       *)
(***************************************************************************)
Levels == {"TRACE", "DEBUG", "INFO", "WARN", "ERROR"}

LogSeverity_from_level(level) ==
    CASE level = "TRACE" -> "Debug"
      [] level = "DEBUG" -> "Debug"
      [] level = "INFO" -> "Info"
      [] level = "WARN" -> "Warning"
      [] OTHER -> "Error"

\* str::to_lowercase
to_lowercase(s) == [i \in DOMAIN s |-> to_ascii_lowercase(s[i])]

LogSeverity_from_str(s) ==
    LET l == to_lowercase(s) IN
    CASE l = W_debug \/ l = W_trace -> "Debug"
      [] l = W_info -> "Info"
      [] l = W_notice -> "Notice"
      [] l = W_warn \/ l = W_warning -> "Warning"
      [] l = W_error -> "Error"
      [] l = W_critical -> "Critical"
      [] l = W_alert -> "Alert"
      [] l = W_emergency -> "Emergency"
      [] OTHER -> "Default"

LogSeverity_from_value(value) ==
    IF value.t = "String" THEN LogSeverity_from_str(value.s) ELSE "Default"

\* Serialize for LogSeverity: the upper-case name of the variant
LogSeverity_serialize(severity) ==
    LET word == CASE severity = "Debug" -> W_debug
                  [] severity = "Info" -> W_info
                  [] severity = "Notice" -> W_notice
                  [] severity = "Warning" -> W_warning
                  [] severity = "Error" -> W_error
                  [] severity = "Critical" -> W_critical
                  [] severity = "Alert" -> W_alert
                  [] severity = "Emergency" -> W_emergency
                  [] OTHER -> W_default
    IN JString([i \in DOMAIN word |-> to_ascii_uppercase(word[i])])

(***************************************************************************)
(* The pieces of one call: the event, the registry context, the formatter. *)
(***************************************************************************)
\* Option::None of a span id, of a file name, of the trace configuration
NoSpan == 0
NoFile == <<>>
NoConfig == <<>>

SpanIds == 1..MaxSpans

\* one entry of the JSON map, as SerializeMap::serialize_entry writes it
Entry(key, value) == [tok |-> "entry", key |-> key, value |-> value]
\* the other writes of the serializer and of writeln!
OpenBrace == [tok |-> "{", key |-> <<>>, value |-> JBool(FALSE)]
CloseBrace == [tok |-> "}", key |-> <<>>, value |-> JBool(FALSE)]
Newline == [tok |-> "newline", key |-> <<>>, value |-> JBool(FALSE)]

(***************************************************************************)
(* The field router: the loop over the collected fields.                   *)
(***************************************************************************)
\* the place of the first '.' of a key, 0 when it has none
RECURSIVE find_dot(_, _)
find_dot(key, i) ==
    IF i > Len(key) THEN 0 ELSE IF key[i] = "." THEN i ELSE find_dot(key, i + 1)

\* key.splitn(2, '.'): the first segment, and the remainder when there is one
splitn2(key) ==
    LET dot == find_dot(key, 1) IN
    IF dot = 0 THEN [first |-> key, has_rest |-> FALSE, rest |-> <<>>]
    ELSE [first |-> SubSeq(key, 1, dot - 1), has_rest |-> TRUE,
          rest |-> SubSeq(key, dot + 1, Len(key))]

\* a variant of route_field: a dotted key with another first segment is
\* routed under its first segment alone
route_field_first_segment(acc, key, value) ==
    LET seg == splitn2(key) IN
    IF seg.first = P_http_request /\ seg.has_rest
    THEN [acc EXCEPT !.http_request = map_insert(@, to_camel_case(seg.rest), value)]
    ELSE IF seg.first = P_labels /\ seg.has_rest
    THEN [acc EXCEPT !.labels =
              map_insert(@, to_camel_case(seg.rest), JString(string_or_to_string(value)))]
    ELSE IF seg.first = P_insert_id /\ ~seg.has_rest
    THEN [acc EXCEPT !.top = Append(@, Entry(K_insertId, JString(string_or_to_string(value))))]
    ELSE IF seg.first = P_message /\ ~seg.has_rest
    THEN [acc EXCEPT !.top = Append(@, Entry(K_message, value))]
    ELSE [acc EXCEPT !.top = Append(@, Entry(to_camel_case(seg.first), value))]

\* the match on (key_segments.next(), key_segments.next()) for one field
route_field(acc, key, value) ==
    LET seg == splitn2(key) IN
    IF seg.first = P_http_request /\ seg.has_rest
    THEN [acc EXCEPT !.http_request = map_insert(@, to_camel_case(seg.rest), value)]
    ELSE IF seg.first = P_labels /\ seg.has_rest
    THEN [acc EXCEPT !.labels =
              map_insert(@, to_camel_case(seg.rest), JString(string_or_to_string(value)))]
    ELSE IF seg.first = P_insert_id /\ ~seg.has_rest
    THEN [acc EXCEPT !.top = Append(@, Entry(K_insertId, JString(string_or_to_string(value))))]
    ELSE IF seg.first = P_message /\ ~seg.has_rest
    THEN [acc EXCEPT !.top = Append(@, Entry(K_message, value))]
    ELSE IF ~seg.has_rest
    THEN [acc EXCEPT !.top = Append(@, Entry(to_camel_case(seg.first), value))]
    ELSE [acc EXCEPT !.top = Append(@, Entry(to_camel_case(key), value))]

\* for (key, value) in visitor.0 { ... }
RECURSIVE route_all(_, _, _)
route_all(acc, map, keys) ==
    IF keys = <<>> THEN acc
    ELSE route_all(route_field(acc, keys[1], map[keys[1]]), map, Tail(keys))

route_fields(map) ==
    route_all([top |-> <<>>, http_request |-> EmptyMap, labels |-> EmptyMap],
              map, SortedKeys(DOMAIN map))

\* a variant of nested_entries: httpRequest is written empty or not
nested_entries_unguarded(routed) ==
    <<Entry(K_httpRequest, JObject(routed.http_request))>>
    \o (IF routed.labels # EmptyMap
        THEN <<Entry(K_labels, JObject(routed.labels))>> ELSE <<>>)

\* the two nested objects, written only when they hold something
nested_entries(routed) ==
    (IF routed.http_request # EmptyMap
     THEN <<Entry(K_httpRequest, JObject(routed.http_request))>> ELSE <<>>)
    \o (IF routed.labels # EmptyMap
        THEN <<Entry(K_labels, JObject(routed.labels))>> ELSE <<>>)

(***************************************************************************)
(* Severity: the override field, else the level.                           *)
(***************************************************************************)
\* visitor.0.remove("severity").map(LogSeverity::from).unwrap_or_else(level)
severity_of(map, level) ==
    IF P_severity \in DOMAIN map THEN LogSeverity_from_value(map[P_severity])
    ELSE LogSeverity_from_level(level)

(***************************************************************************)
(* Source location (serializers.rs SourceLocation).                        *)
(***************************************************************************)
\* { "file": file, "line": line }, the line as its decimal text
SourceLocation(file, line) ==
    JObject(map_insert(map_insert(EmptyMap, S_file, JString(file)),
                       S_line, JString(NatToStr(line))))

source_location_entries(fmt, ev) ==
    IF fmt.include_source_location /\ ev.file # NoFile
    THEN <<Entry(K_sourceLocation, SourceLocation(ev.file, ev.line))>>
    ELSE <<>>

(***************************************************************************)
(* The span registry as the formatter queries it.                          *)
(***************************************************************************)
\* context.span(id): the span of that id when the registry still holds it
context_span(ctx, id) == IF id \in DOMAIN ctx.spans THEN id ELSE NoSpan

\* context.lookup_current()
lookup_current(ctx) == ctx.current

\* a variant of resolve_span: the ambient current span wins over the parent
resolve_span_current_first(ctx, ev) ==
    IF lookup_current(ctx) # NoSpan THEN lookup_current(ctx)
    ELSE IF ev.parent # NoSpan THEN context_span(ctx, ev.parent)
    ELSE NoSpan

\* event.parent().and_then(|id| context.span(id)).or_else(|| context.lookup_current())
resolve_span(ctx, ev) ==
    IF ev.parent # NoSpan /\ context_span(ctx, ev.parent) # NoSpan
    THEN context_span(ctx, ev.parent)
    ELSE lookup_current(ctx)

\* span.scope().from_root(): the span's ancestors, outermost first, then the span
RECURSIVE scope_from_root(_, _)
scope_from_root(ctx, id) ==
    IF ctx.spans[id].parent = NoSpan THEN <<id>>
    ELSE Append(scope_from_root(ctx, ctx.spans[id].parent), id)

\* serializers.rs SerializableSpan: the span's name (and its own fields)
SerializableSpan(ctx, id) ==
    JObject(map_insert(EmptyMap, S_name, JString(ctx.spans[id].name)))

\* serializers.rs SerializableContext: the scope of the ambient current span
SerializableContext(ctx) ==
    LET leaf == lookup_current(ctx)
        scope == IF leaf = NoSpan THEN <<>> ELSE scope_from_root(ctx, leaf)
    IN JArray([i \in DOMAIN scope |-> SerializableSpan(ctx, scope[i])])

\* the "span" and "spans" entries
span_entries(ctx, span) ==
    LET spans_value == SerializableContext(ctx)
        spans_array == spans_value.arr
    IN (IF span # NoSpan THEN <<Entry(K_span, SerializableSpan(ctx, span))>>
        ELSE IF spans_array # <<>> THEN <<Entry(K_span, spans_array[Len(spans_array)])>>
        ELSE <<>>)
       \o (IF spans_array # <<>> THEN <<Entry(K_spans, spans_value)>> ELSE <<>>)

(***************************************************************************)
(* Cloud Trace correlation (feature "opentelemetry").                      *)
(***************************************************************************)
\* a variant of otel_span_id: the ambient span's id is used remote or not
otel_span_id_any_ambient(otel_data, current_cx) ==
    IF otel_data.builder_span_id.some THEN otel_data.builder_span_id
    ELSE IF current_cx.has_active_span
    THEN [some |-> TRUE, id |-> current_cx.span_id]
    ELSE [some |-> FALSE, id |-> <<>>]

\* builder.span_id, else the id of a local active span of Context::current()
otel_span_id(otel_data, current_cx) ==
    IF otel_data.builder_span_id.some THEN otel_data.builder_span_id
    ELSE IF current_cx.has_active_span /\ ~current_cx.is_remote
    THEN [some |-> TRUE, id |-> current_cx.span_id]
    ELSE [some |-> FALSE, id |-> <<>>]

\* a variant of trace_entries: the project configuration is not consulted
trace_entries_no_config(fmt, ctx, span) ==
    IF span # NoSpan /\ ctx.spans[span].otel_data.some
    THEN LET otel_data == ctx.spans[span].otel_data
             parent_cx == otel_data.parent_cx
             span_id == otel_span_id(otel_data, ctx.otel_current)
         IN (IF parent_cx.has_active_span
             THEN <<Entry(K_trace, JString(S_projects \o fmt.cloud_trace_configuration
                                           \o S_traces \o parent_cx.trace_id))>>
             ELSE <<>>)
            \o (IF span_id.some THEN <<Entry(K_spanId, JString(span_id.id))>> ELSE <<>>)
            \o (IF parent_cx.has_active_span /\ parent_cx.is_sampled
                THEN <<Entry(K_traceSampled, JBool(TRUE))>> ELSE <<>>)
    ELSE <<>>

\* the three logging.googleapis.com trace entries
trace_entries(fmt, ctx, span) ==
    IF span # NoSpan /\ fmt.cloud_trace_configuration # NoConfig
       /\ ctx.spans[span].otel_data.some
    THEN LET otel_data == ctx.spans[span].otel_data
             parent_cx == otel_data.parent_cx
             span_id == otel_span_id(otel_data, ctx.otel_current)
         IN (IF parent_cx.has_active_span
             THEN <<Entry(K_trace, JString(S_projects \o fmt.cloud_trace_configuration
                                           \o S_traces \o parent_cx.trace_id))>>
             ELSE <<>>)
            \o (IF span_id.some THEN <<Entry(K_spanId, JString(span_id.id))>> ELSE <<>>)
            \o (IF parent_cx.has_active_span /\ parent_cx.is_sampled
                THEN <<Entry(K_traceSampled, JBool(TRUE))>> ELSE <<>>)
    ELSE <<>>

(***************************************************************************)
(* EventFormatter::format_event: the writes of one call, in order.         *)
(***************************************************************************)
NoFault == [kind |-> "none", at |-> 0]

\* the value of event while no call is under way
NoEvent == [level |-> "INFO", target |-> <<>>, file |-> NoFile, line |-> 0,
            parent |-> NoSpan, fields |-> EmptyMap]

\* "severity", "time", "target"
head_entries(ev, map) ==
    <<Entry(K_severity, LogSeverity_serialize(severity_of(map, ev.level))),
      Entry(K_time, JString(V_now)),
      Entry(K_target, JString(ev.target))>>

\* the writes up to the serialization of the span context
pre_context_writes(fmt, ev) ==
    LET visited == EventFieldVisitor(ev)
        routed == route_fields(map_remove(visited, P_severity))
    IN <<OpenBrace>> \o head_entries(ev, visited) \o routed.top
       \o nested_entries(routed) \o source_location_entries(fmt, ev)

\* the writes from the span entries to map.end()
post_context_writes(fmt, ctx, ev) ==
    LET span == resolve_span(ctx, ev)
    IN span_entries(ctx, span) \o trace_entries(fmt, ctx, span) \o <<CloseBrace>>

\* WriteAdaptor (writer.rs): every write of the serializer goes straight to
\* the format::Writer; the writes before a failing one stay written
WriteAdaptor(writes, failing) == SubSeq(writes, 1, failing - 1)

\* the inherent format_event: what it wrote and whether it returned Ok;
\* flt names the step that fails, if any
format_event(fmt, ctx, ev, flt) ==
    LET pre == pre_context_writes(fmt, ev)
        all == pre \o post_context_writes(fmt, ctx, ev)
    IN IF flt.kind = "time" THEN [written |-> <<>>, ok |-> FALSE]
       ELSE IF flt.kind = "write" /\ flt.at <= Len(pre)
       THEN [written |-> WriteAdaptor(pre, flt.at), ok |-> FALSE]
       ELSE IF flt.kind = "context" THEN [written |-> pre, ok |-> FALSE]
       ELSE IF flt.kind = "write" /\ flt.at <= Len(all)
       THEN [written |-> WriteAdaptor(all, flt.at), ok |-> FALSE]
       ELSE [written |-> all, ok |-> TRUE]

\* the steps of a call that can fail: the timestamp, the serialization of
\* the span context, the at-th write on the sink (a call that makes fewer
\* writes never gets to it)
Faults ==
    {NoFault, [kind |-> "time", at |-> 0], [kind |-> "context", at |-> 0]}
    \cup {[kind |-> "write", at |-> k] : k \in 1..MaxFaultAt}

(***************************************************************************)
(* impl FormatEvent for EventFormatter: the call tracing-subscriber makes, *)
(* once per event, on a writer that holds nothing of that event yet.       *)
(***************************************************************************)
FormatEvent(ev, flt) ==
    /\ result = "none"
    /\ LET inner == format_event(formatter, context, ev, flt) IN
         IF ~inner.ok
         THEN writer' = inner.written /\ result' = "err"
         ELSE IF flt.kind = "write" /\ flt.at = Len(inner.written) + 1
         THEN writer' = inner.written /\ result' = "err"
         ELSE writer' = Append(inner.written, Newline) /\ result' = "ok"
    /\ event' = ev
    /\ fault' = flt
    /\ UNCHANGED <<formatter, context>>

\* The end of the call: the event, its document and the writer handed in for
\* it are dropped; nothing of one event is kept for the next.
Discard ==
    /\ result # "none"
    /\ event' = NoEvent
    /\ fault' = NoFault
    /\ writer' = <<>>
    /\ result' = "none"
    /\ UNCHANGED <<formatter, context>>

(***************************************************************************)
(* The inputs of the model.                                                *)
(***************************************************************************)
FieldValue(kind, finite, num, text, flag) ==
    [kind |-> kind, finite |-> finite, num |-> num, text |-> text, flag |-> flag]
Str(s) == FieldValue("str", TRUE, 0, s, FALSE)
Dbg(s) == FieldValue("debug", TRUE, 0, s, FALSE)
Err(s) == FieldValue("error", TRUE, 0, s, FALSE)
I64(n) == FieldValue("i64", TRUE, n, <<>>, FALSE)
U64(n) == FieldValue("u64", TRUE, n, <<>>, FALSE)
NaN == FieldValue("f64", FALSE, 0, <<>>, FALSE)
Bool(b) == FieldValue("bool", TRUE, 0, <<>>, b)

\* the values a field of each name takes
FieldValues(name) ==
    CASE name = P_severity -> {Str(V_Notice), Str(V_bogus)}
      [] name = F_Severity -> {Str(V_info)}
      [] name = P_message -> {Dbg(V_hello)}
      [] name = F_message_x -> {Err(V_hello)}
      [] name = F_log_line -> {Dbg(V_v)}
      [] name = F_labels_env -> {Str(V_v), I64(7)}
      [] name = P_insert_id -> {U64(42)}
      [] name = F_http_request_status -> {U64(503)}
      [] name = F_foo_bar -> {NaN}
      [] name = F_x_y -> {Bool(TRUE)}
      [] OTHER -> {Str(V_v)}

\* every field set over names with at most max fields
FieldMaps(names, max) ==
    LET sets == {S \in SUBSET names : Cardinality(S) <= max}
        values == UNION {FieldValues(n) : n \in names}
    IN UNION {{f \in [S -> values] : \A n \in S : f[n] \in FieldValues(n)} : S \in sets}

\* the events over a choice of field sets, levels, files and parents
Events(maps, levels, files, parents) ==
    [level : levels, target : {V_app}, file : files, line : {7},
     parent : parents, fields : maps]

\* tracing-opentelemetry's OtelData of a span, when it has one
NoOtelData == [some |-> FALSE,
               builder_span_id |-> [some |-> FALSE, id |-> <<>>],
               parent_cx |-> [has_active_span |-> FALSE, trace_id |-> <<>>,
                              is_sampled |-> FALSE]]

OtelDatas ==
    {[some |-> TRUE, builder_span_id |-> b, parent_cx |-> p] :
        b \in {[some |-> FALSE, id |-> <<>>], [some |-> TRUE, id |-> V_own]},
        p \in {[has_active_span |-> FALSE, trace_id |-> <<>>, is_sampled |-> FALSE],
               [has_active_span |-> TRUE, trace_id |-> V_abc, is_sampled |-> FALSE],
               [has_active_span |-> TRUE, trace_id |-> V_abc, is_sampled |-> TRUE]}}

\* opentelemetry::Context::current(): no active span, a local one, a remote one
NoOtelCurrent == [has_active_span |-> FALSE, span_id |-> <<>>, is_remote |-> FALSE]

OtelCurrents ==
    {NoOtelCurrent,
     [has_active_span |-> TRUE, span_id |-> V_xyz, is_remote |-> FALSE],
     [has_active_span |-> TRUE, span_id |-> V_rem, is_remote |-> TRUE]}

SpanName(id) == IF id = 1 THEN V_server ELSE IF id = 2 THEN V_request
                ELSE V_db \o NatToStr(id)

\* the registries over the span ids of S: a span's parent is an older live
\* span or none (a live span keeps its parent alive)
RECURSIVE Registries(_, _, _)
Registries(S, otels, nested) ==
    IF S = {} THEN {EmptyMap}
    ELSE LET id == CHOOSE x \in S : \A y \in S : y <= x
             older == S \ {id}
             parents == IF nested THEN {NoSpan} \cup older ELSE {NoSpan}
         IN {map_insert(r, id, [name |-> SpanName(id), parent |-> p, otel_data |-> o]) :
                r \in Registries(older, otels, nested), p \in parents, o \in otels}

\* the contexts: a registry, its current span (entered, hence live) and the
\* ambient OpenTelemetry context
Contexts(sets, otels, nested, currents) ==
    UNION {[spans : Registries(S, otels, nested), current : S \cup {NoSpan},
            otel_current : currents] : S \in sets}

Formatters(flags, configs) ==
    [include_source_location : flags, cloud_trace_configuration : configs]

InitWith(formatters, contexts) ==
    /\ formatter \in formatters
    /\ context \in contexts
    /\ event = NoEvent
    /\ fault = NoFault
    /\ writer = <<>>
    /\ result = "none"

(***************************************************************************)
(* Spec: the field collector and router, every field set of up to          *)
(* MaxFields fields, at every level.                                       *)
(***************************************************************************)
RoutingNames ==
    {F_a, F_foo_bar, F_fooBar, F_time, F_span, P_severity, F_Severity, P_message,
     F_message_x, P_insert_id, F_insert_id_x, P_http_request, F_http_request_status,
     F_http_request_remote_ip, F_labels_env, F_log_line, F_x_y}

RoutingEvents == Events(FieldMaps(RoutingNames, MaxFields), Levels, {V_file}, {NoSpan})

RoutingContexts == Contexts({{}, {1}}, {NoOtelData}, FALSE, {NoOtelCurrent})

Init == InitWith(Formatters(BOOLEAN, {NoConfig}), RoutingContexts)

Next ==
    \/ \E ev \in RoutingEvents : FormatEvent(ev, NoFault)
    \/ Discard

Spec == Init /\ [][Next]_vars

(***************************************************************************)
(* SpecSpans: the span stack resolver, every registry of up to MaxSpans    *)
(* spans, every explicit parent.                                           *)
(***************************************************************************)
SpanEvents ==
    Events(FieldMaps({F_a, F_span, P_message}, 1), {"INFO"}, {NoFile, V_file},
           {NoSpan} \cup SpanIds)

InitSpans ==
    InitWith(Formatters({TRUE}, {NoConfig}),
             Contexts(SUBSET SpanIds, {NoOtelData}, TRUE, {NoOtelCurrent}))

NextSpans ==
    \/ \E ev \in SpanEvents : FormatEvent(ev, NoFault)
    \/ Discard

SpecSpans == InitSpans /\ [][NextSpans]_vars

(***************************************************************************)
(* SpecTrace: the trace correlator, every OtelData of the spans, every     *)
(* ambient OpenTelemetry context, with and without a project id.           *)
(***************************************************************************)
TraceEvents == Events(FieldMaps({P_message}, 1), {"INFO"}, {NoFile}, {NoSpan} \cup SpanIds)

InitTrace ==
    InitWith(Formatters({TRUE}, {NoConfig, V_proj}),
             Contexts(SUBSET SpanIds, {NoOtelData} \cup OtelDatas, FALSE, OtelCurrents))

NextTrace ==
    \/ \E ev \in TraceEvents : FormatEvent(ev, NoFault)
    \/ Discard

SpecTrace == InitTrace /\ [][NextTrace]_vars

(***************************************************************************)
(* SpecOrder: the order of the keys of a document, field sets of up to     *)
(* MaxFields + 1 fields in front of every kind of trailing key.            *)
(***************************************************************************)
OrderEvents ==
    Events(FieldMaps({F_a, P_message, F_x_y, P_insert_id, F_http_request_status,
                      F_labels_env}, MaxFields + 1),
           {"INFO"}, {V_file}, {NoSpan})

InitOrder ==
    InitWith(Formatters(BOOLEAN, {NoConfig, V_proj}),
             Contexts(SUBSET SpanIds,
                      {NoOtelData,
                       [some |-> TRUE, builder_span_id |-> [some |-> TRUE, id |-> V_own],
                        parent_cx |-> [has_active_span |-> TRUE, trace_id |-> V_abc,
                                       is_sampled |-> TRUE]]},
                      TRUE, {NoOtelCurrent}))

NextOrder ==
    \/ \E ev \in OrderEvents : FormatEvent(ev, NoFault)
    \/ Discard

SpecOrder == InitOrder /\ [][NextOrder]_vars

(***************************************************************************)
(* SpecFault: every step of a call that can fail, failing.                 *)
(***************************************************************************)
FaultEvents ==
    Events(FieldMaps({F_a, P_message, F_http_request_status, F_labels_env}, MaxFields),
           {"ERROR"}, {V_file}, {NoSpan} \cup SpanIds)

InitFault ==
    InitWith(Formatters({TRUE}, {NoConfig, V_proj}),
             Contexts({S \in SUBSET SpanIds : Cardinality(S) <= 1},
                      {NoOtelData} \cup OtelDatas, FALSE, {NoOtelCurrent}))

NextFault ==
    \/ \E ev \in FaultEvents : \E flt \in Faults : FormatEvent(ev, flt)
    \/ Discard

SpecFault == InitFault /\ [][NextFault]_vars

(***************************************************************************)
(* What the claims speak about: the document of a call that returned Ok,   *)
(* and the inputs of that call.                                            *)
(***************************************************************************)
Ok == result = "ok"

\* the entries of the emitted document, in the order written
Doc == SubSeq(writer, 2, Len(writer) - 2)

HasKey(key) == \E i \in DOMAIN Doc : Doc[i].key = key

\* the fields the collector kept for the event
Collected == EventFieldVisitor(event)

\* the key matches http_request.<rest>, labels.<rest>, insert_id or message
MatchesRoutingPattern(key) ==
    LET seg == splitn2(key) IN
    \/ seg.first = P_http_request /\ seg.has_rest
    \/ seg.first = P_labels /\ seg.has_rest
    \/ key = P_insert_id
    \/ key = P_message

ReservedKeys ==
    {K_severity, K_time, K_target, K_message, K_httpRequest, K_span, K_spans,
     K_insertId, K_labels, K_sourceLocation, K_trace, K_spanId, K_traceSampled}

\* the collected fields that land at the top level under their own camel-cased name
DefaultRouted == {k \in DOMAIN Collected : ~MatchesRoutingPattern(k) /\ k # P_severity}

\* no field of the event camel-cases to a reserved key or to another field's key
CollisionFree ==
    /\ \A k \in DefaultRouted : to_camel_case(k) \notin ReservedKeys
    /\ \A k, l \in DefaultRouted : k # l => to_camel_case(k) # to_camel_case(l)

\* the immediate span of the event: its explicit parent when the registry
\* resolves it, else the ambient current span
ExplicitParentResolves == event.parent # NoSpan /\ event.parent \in DOMAIN context.spans
ImmediateSpan == IF ExplicitParentResolves THEN event.parent ELSE context.current

\* a written line: "{", entries, "}", newline
IsCompleteLine(w) ==
    /\ Len(w) >= 3
    /\ w[1] = OpenBrace
    /\ w[Len(w) - 1] = CloseBrace
    /\ w[Len(w)] = Newline
    /\ \A i \in 2..(Len(w) - 2) : w[i].tok = "entry"

(***************************************************************************)
(* C1: a call leaves on the sink either one complete JSON object followed  *)
(* by a newline or nothing at all, whichever of its steps fails.           *)
(***************************************************************************)
C1_AllOrNothing == result # "none" => (writer = <<>> \/ IsCompleteLine(writer))

(***************************************************************************)
(* C2: no key is written twice in the top-level object of a document.      *)
(***************************************************************************)
C2_UniqueKeys ==
    Ok => \A i, j \in DOMAIN Doc : i # j => Doc[i].key # Doc[j].key

(***************************************************************************)
(* C3: without a field named severity the first entry is severity with the *)
(* table value of the level; with one, the first entry is severity with    *)
(* the parsed override, and no other entry has the key severity.           *)
(***************************************************************************)
LevelTable(level) ==
    CASE level \in {"TRACE", "DEBUG"} -> "Debug"
      [] level = "INFO" -> "Info"
      [] level = "WARN" -> "Warning"
      [] level = "ERROR" -> "Error"

C3_Severity ==
    Ok =>
      IF P_severity \notin DOMAIN event.fields
      THEN Doc[1] = Entry(K_severity, LogSeverity_serialize(LevelTable(event.level)))
      ELSE /\ Doc[1] = Entry(K_severity,
                   LogSeverity_serialize(LogSeverity_from_str(event.fields[P_severity].text)))
           /\ \A i \in DOMAIN Doc : Doc[i].key = K_severity => i = 1

(***************************************************************************)
(* C4 as stated: every collected field whose key matches none of           *)
(* http_request.<rest>, labels.<rest>, insert_id, message has a top-level  *)
(* entry under its camel-cased key holding the collected value.            *)
(***************************************************************************)
C4_DefaultRouting ==
    Ok => \A k \in DOMAIN Collected :
            ~MatchesRoutingPattern(k) =>
                \E i \in DOMAIN Doc : Doc[i] = Entry(to_camel_case(k), Collected[k])

(***************************************************************************)
(* C4 as amended: the same for every such field other than the severity    *)
(* override field, which is consumed by the severity derivation.           *)
(***************************************************************************)
C4_DefaultRoutingExceptSeverity ==
    Ok => \A k \in DOMAIN Collected :
            (~MatchesRoutingPattern(k) /\ k # P_severity) =>
                \E i \in DOMAIN Doc : Doc[i] = Entry(to_camel_case(k), Collected[k])

\* a dotted key with another first segment, and insert_id.<rest>, were routed
C4_Witness ==
    /\ Ok
    /\ {F_x_y, F_insert_id_x} \subseteq DOMAIN Collected
    /\ HasKey(<<"x", "Y">>)
    /\ HasKey(<<"i","n","s","e","r","t","I","d","X">>)

(***************************************************************************)
(* C5: severity, time, target are the first three keys; message is not     *)
(* interleaved among the caller-supplied top-level fields; httpRequest,    *)
(* labels, source location, span, spans, trace, spanId, trace_sampled      *)
(* follow all caller-supplied fields, in that order.  Stated for events    *)
(* none of whose fields collides with a reserved key.                      *)
(***************************************************************************)
TrailingOrder ==
    <<K_httpRequest, K_labels, K_sourceLocation, K_span, K_spans, K_trace, K_spanId,
      K_traceSampled>>

C5_FixedPositions ==
    (Ok /\ CollisionFree) =>
      LET callers == {i \in DOMAIN Doc : Doc[i].key \notin ReservedKeys}
          trailing == {i \in DOMAIN Doc : Doc[i].key \in Range(TrailingOrder)}
      IN /\ Doc[1].key = K_severity /\ Doc[2].key = K_time /\ Doc[3].key = K_target
         /\ \A m \in DOMAIN Doc : Doc[m].key = K_message =>
                \/ \A c \in callers : m < c
                \/ \A c \in callers : c < m
         /\ \A c \in callers : \A t \in trailing : c < t
         /\ \A s, t \in trailing :
                s < t => IndexIn(TrailingOrder, Doc[s].key) < IndexIn(TrailingOrder, Doc[t].key)

(***************************************************************************)
(* C6: when an immediate span is resolved the document holds span and also *)
(* spans, the ancestor chain of that span outermost first; when no span    *)
(* exists it holds neither.  Stated for events with no field of those      *)
(* names.                                                                  *)
(***************************************************************************)
RECURSIVE AncestorChain(_)
AncestorChain(id) ==
    IF context.spans[id].parent = NoSpan THEN <<id>>
    ELSE Append(AncestorChain(context.spans[id].parent), id)

C6_SpanAndSpans ==
    (Ok /\ CollisionFree) =>
      IF ImmediateSpan # NoSpan
      THEN /\ HasKey(K_span)
           /\ LET chain == AncestorChain(ImmediateSpan) IN
              \E i \in DOMAIN Doc :
                  Doc[i] = Entry(K_spans,
                                 JArray([n \in DOMAIN chain |-> SerializableSpan(context, chain[n])]))
      ELSE ~HasKey(K_span) /\ ~HasKey(K_spans)

(***************************************************************************)
(* C7: the span entry of a document is the serialization of the event's    *)
(* explicit parent when the registry resolves it, and of the ambient       *)
(* current span otherwise; no other span is serialized under that key.     *)
(***************************************************************************)
C7_SpanFallback ==
    (Ok /\ ImmediateSpan # NoSpan) =>
      /\ \E i \in DOMAIN Doc : Doc[i] = Entry(K_span, SerializableSpan(context, ImmediateSpan))
      /\ \A i \in DOMAIN Doc :
            (Doc[i].key = K_span /\ Doc[i].value.t = "Object") =>
                Doc[i].value = SerializableSpan(context, ImmediateSpan)

\* the explicit parent did not resolve and the ambient span was emitted
C7_Witness ==
    /\ Ok
    /\ event.parent # NoSpan
    /\ event.parent \notin DOMAIN context.spans
    /\ context.current # NoSpan
    /\ \E i \in DOMAIN Doc : Doc[i] = Entry(K_span, SerializableSpan(context, context.current))

(***************************************************************************)
(* C8: a document holds one of the three trace keys only when a project id *)
(* is configured, an immediate span was resolved and that span carries     *)
(* trace-context data; in every combination the call succeeds.             *)
(***************************************************************************)
TraceKeys == {K_trace, K_spanId, K_traceSampled}

TraceGate ==
    /\ formatter.cloud_trace_configuration # NoConfig
    /\ ImmediateSpan # NoSpan
    /\ context.spans[ImmediateSpan].otel_data.some

C8_TraceGating ==
    (result # "none" /\ fault = NoFault) =>
      /\ Ok
      /\ (\E i \in DOMAIN Doc : Doc[i].key \in TraceKeys) => TraceGate

\* no project id, yet the span carries a sampled trace context
C8_Witness ==
    /\ Ok
    /\ formatter.cloud_trace_configuration = NoConfig
    /\ ImmediateSpan # NoSpan
    /\ context.spans[ImmediateSpan].otel_data.some
    /\ context.spans[ImmediateSpan].otel_data.parent_cx.is_sampled
    /\ \A i \in DOMAIN Doc : Doc[i].key \notin TraceKeys

(***************************************************************************)
(* C9: where trace correlation applies, spanId is the span's own id when   *)
(* it is assigned; else the id of the ambient active trace span when that  *)
(* span exists and is not remote; else no spanId is written.               *)
(***************************************************************************)
SpanIdEntries == {i \in DOMAIN Doc : Doc[i].key = K_spanId}

C9_SpanIdResolution ==
    (Ok /\ TraceGate) =>
      LET own == context.spans[ImmediateSpan].otel_data.builder_span_id
          ambient == context.otel_current
      IN IF own.some
         THEN /\ Cardinality(SpanIdEntries) = 1
              /\ \A i \in SpanIdEntries : Doc[i].value = JString(own.id)
         ELSE IF ambient.has_active_span /\ ~ambient.is_remote
         THEN /\ Cardinality(SpanIdEntries) = 1
              /\ \A i \in SpanIdEntries : Doc[i].value = JString(ambient.span_id)
         ELSE SpanIdEntries = {}

\* the span has no id of its own and the ambient trace span is remote
C9_Witness ==
    /\ Ok
    /\ TraceGate
    /\ ~context.spans[ImmediateSpan].otel_data.builder_span_id.some
    /\ context.otel_current.has_active_span
    /\ context.otel_current.is_remote
    /\ HasKey(K_trace)
    /\ ~HasKey(K_spanId)

(***************************************************************************)
(* C10 as stated: httpRequest is a key of a document only when a field     *)
(* http_request.<rest> was collected, and labels only when a field         *)
(* labels.<rest> was collected.                                            *)
(***************************************************************************)
HttpRequestFields ==
    {k \in DOMAIN Collected : splitn2(k).first = P_http_request /\ splitn2(k).has_rest}

LabelFields ==
    {k \in DOMAIN Collected : splitn2(k).first = P_labels /\ splitn2(k).has_rest}

C10_NestedOnlyNonEmpty ==
    Ok =>
      /\ HasKey(K_httpRequest) => HttpRequestFields # {}
      /\ HasKey(K_labels) => LabelFields # {}

(***************************************************************************)
(* C10 as amended: an object under httpRequest is written only when a      *)
(* field http_request.<rest> was collected, once, and holds those fields   *)
(* under their camel-cased <rest>; labels is a key only when a field       *)
(* labels.<rest> was collected; any other httpRequest entry is a field     *)
(* whose own name camel-cases to httpRequest, routed by the default rule.  *)
(***************************************************************************)
NestedHttpRequests ==
    {i \in DOMAIN Doc : Doc[i].key = K_httpRequest /\ Doc[i].value.t = "Object"}

C10_NestedObjectOnlyNonEmpty ==
    Ok =>
      /\ HttpRequestFields = {} => NestedHttpRequests = {}
      /\ HttpRequestFields # {} =>
            /\ Cardinality(NestedHttpRequests) = 1
            /\ \A i \in NestedHttpRequests :
                  /\ DOMAIN Doc[i].value.obj =
                        {to_camel_case(splitn2(k).rest) : k \in HttpRequestFields}
                  /\ \A k \in HttpRequestFields :
                        Doc[i].value.obj[to_camel_case(splitn2(k).rest)] = Collected[k]
      /\ \A i \in DOMAIN Doc :
            (Doc[i].key = K_httpRequest /\ i \notin NestedHttpRequests) =>
                \E k \in DefaultRouted :
                    Doc[i] = Entry(to_camel_case(k), Collected[k])
      /\ HasKey(K_labels) => LabelFields # {}

\* a field named exactly http_request, no http_request.<rest> field
C10_Witness ==
    /\ Ok
    /\ P_http_request \in DOMAIN Collected
    /\ HttpRequestFields = {}
    /\ HasKey(K_httpRequest)
    /\ NestedHttpRequests = {}

====
